---- MODULE Spec2Model ----
(***************************************************************************)
(* Sleeping Beauty Mechanism Viewer (app.js): the password gate, the       *)
(* decryption of the bundled datasets and the case navigation, as a state  *)
(* machine.  JavaScript runs every handler to completion, so one action is *)
(* the code between two awaits of an async function, or one whole event    *)
(* handler.                                                                *)
(***************************************************************************)
EXTENDS Integers, Sequences, FiniteSets, TLC

\* ------------------------------------------------------------------ bounds

\* submitPassword invocations in one session
MaxCalls == 2

\* ------------------------------------------------------------- JS values

\* A JavaScript value: its type, its literal (scalars) and its elements (arrays).
JSValue(t, lit, items) == [t |-> t, lit |-> lit, items |-> items]

JSNull == JSValue("null", "null", <<>>)

JSUndefined == JSValue("undefined", "undefined", <<>>)

JSArray(items) == JSValue("array", "", items)

\* A JavaScript number that may be undefined (a missing field) or NaN.
Num(n) == [defined |-> TRUE, n |-> n]

NotANumber == [defined |-> FALSE, n |-> 0]

\* A mechanism label, as the sequence of its words; c.mechanism may be
\* missing.
Label(words) == [present |-> TRUE, words |-> words]

NoLabel == [present |-> FALSE, words |-> <<>>]

ExternalEvent == <<"External", "Event">>

ContextualDiscovery == <<"Contextual", "Discovery">>

AuthorSeriesContinuation == <<"Author", "Series", "Continuation">>

AuthorSelfPromotion == <<"Author", "Self-Promotion">>

NewUserDiscovery == <<"New", "User", "Discovery">>

Possible == <<"Possible">>

\* 'X (Possible)'
PossibleVariant(words) == words \o <<"(">> \o Possible \o <<")">>

\* 'X + Y'
Combined(a, b) == a \o <<"+">> \o b

Mechanisms ==
    { NoLabel, Label(<<>>), Label(<<"Unknown">>),
      Label(ExternalEvent),
      Label(Combined(ExternalEvent, ContextualDiscovery)),
      Label(Combined(ContextualDiscovery, ExternalEvent)),
      Label(Combined(Combined(ExternalEvent, ContextualDiscovery),
                     AuthorSelfPromotion)),
      Label(AuthorSeriesContinuation),
      Label(PossibleVariant(AuthorSeriesContinuation)),
      Label(Combined(AuthorSeriesContinuation, NewUserDiscovery)),
      Label(Combined(PossibleVariant(AuthorSeriesContinuation),
                     AuthorSelfPromotion)),
      Label(AuthorSelfPromotion),
      Label(PossibleVariant(AuthorSelfPromotion)),
      Label(NewUserDiscovery),
      Label(PossibleVariant(NewUserDiscovery)) }

\* c.prince_post, which may be missing, with its post_id.
PrincePost(post_id) == [present |-> TRUE, post_id |-> post_id]

NoPrincePost == [present |-> FALSE, post_id |-> ""]

PrincePosts == {NoPrincePost, PrincePost("prince")}

\* An element of exploration.author_comments_elsewhere: the thread it was
\* written on, and whether its body holds a link to the post (the text
\* 'healthunlocked.com' or the post's id).
Comment(thread_id, links) == [thread_id |-> thread_id, links |-> links]

\* c.exploration, which may be missing, with its author_comments_elsewhere.
Exploration(comments) ==
    [present |-> TRUE, author_comments_elsewhere |-> comments]

NoExploration == [present |-> FALSE, author_comments_elsewhere |-> <<>>]

Explorations ==
    { NoExploration, Exploration(<<>>),
      Exploration(<<Comment("prince", FALSE)>>),
      Exploration(<<Comment("other", TRUE)>>),
      Exploration(<<Comment("other", FALSE)>>) }

\* A case record: the fields renderCase branches on; the fields every record
\* carries (title, B, tm, confidence, daily_views, ...) are left out.
Record(rank, mechanism, prince_post, exploration) ==
    [rank |-> rank, mechanism |-> mechanism, prince_post |-> prince_post,
     exploration |-> exploration]

\* The record of the reference dataset with that rank.
Case(rank) ==
    Record(rank, Label(NewUserDiscovery), NoPrincePost, Exploration(<<>>))

\* The records a dataset of one case is made of.
Records ==
    {Record(1, m, NoPrincePost, Exploration(<<>>)) : m \in Mechanisms} \cup
    {Record(1, m, p, e) :
        m \in {NoLabel, Label(NewUserDiscovery), Label(AuthorSelfPromotion)},
        p \in PrincePosts, e \in Explorations}

\* The datasets an envelope may carry.
Datasets ==
    {<<>>, <<Case(1)>>, <<Case(1), Case(2)>>} \cup {<<c>> : c \in Records}

\* A truthiness that takes every value but null and undefined for true.
TruthyNonNull(v) == v.t \notin {"null", "undefined"}

\* `if (decrypted)`: JavaScript truthiness.
Truthy(v) ==
    CASE v.t \in {"null", "undefined"} -> FALSE
      [] v.t = "boolean" -> v.lit = "true"
      [] v.t = "number" -> v.lit # "0"
      [] v.t = "string" -> v.lit # ""
      [] OTHER -> TRUE

\* ------------------------------------------------------ plaintext and JSON

\* Decrypted bytes: either a valid UTF-8 encoding of a text, or not.
Utf8Bytes(text) == [valid |-> TRUE, text |-> text]

BadUtf8Bytes == [valid |-> FALSE, text |-> ""]

\* The JSON text of a dataset, as JSON.stringify writes it.
RECURSIVE Joined(_, _)
Joined(texts, separator) ==
    IF texts = <<>> THEN ""
    ELSE IF Len(texts) = 1 THEN texts[1]
    ELSE texts[1] \o separator \o Joined(Tail(texts), separator)

CommentText(comment) ==
    "{\"thread_id\":\"" \o comment.thread_id \o "\",\"comment_body\":\""
    \o (IF comment.links THEN "healthunlocked.com" ELSE "") \o "\"}"

RecordText(c) ==
    "{\"rank\":" \o ToString(c.rank)
    \o (IF c.mechanism.present
        THEN ",\"mechanism\":\"" \o Joined(c.mechanism.words, " ") \o "\""
        ELSE "")
    \o (IF c.prince_post.present
        THEN ",\"prince_post\":{\"post_id\":\"" \o c.prince_post.post_id
             \o "\"}"
        ELSE "")
    \o (IF c.exploration.present
        THEN ",\"exploration\":{\"author_comments_elsewhere\":["
             \o Joined([k \in DOMAIN c.exploration.author_comments_elsewhere
                           |-> CommentText(
                                 c.exploration.author_comments_elsewhere[k])],
                       ",")
             \o "]}"
        ELSE "")
    \o "}"

DatasetText(records) ==
    "[" \o Joined([k \in DOMAIN records |-> RecordText(records[k])], ",")
    \o "]"

CasesText == DatasetText(<<Case(1), Case(2)>>)

LateCasesText == DatasetText(<<Case(1)>>)

Texts == {"", "plain text", "null", "false", "0", "\"\"", "[]", CasesText}

Plaintexts == {BadUtf8Bytes} \cup {Utf8Bytes(t) : t \in Texts}

\* decrypted.toString(CryptoJS.enc.Utf8) throws 'Malformed UTF-8 data'.
Utf8Throws(bytes) == ~bytes.valid

Utf8Stringify(bytes) == bytes.text

\* The JSON texts of the datasets.
DatasetTexts == {DatasetText(records) : records \in Datasets}

\* The array each of these texts is the JSON of.
ParsedDatasets ==
    [text \in DatasetTexts |->
        CHOOSE records \in Datasets : DatasetText(records) = text]

\* JSON.parse throws a SyntaxError on a text that is not JSON ("" included).
JSONThrows(text) ==
    /\ text \notin {"null", "false", "0", "\"\""}
    /\ text \notin DatasetTexts

JSONParse(text) ==
    CASE text = "null" -> JSNull
      [] text = "false" -> JSValue("boolean", "false", <<>>)
      [] text = "0" -> JSValue("number", "0", <<>>)
      [] text = "\"\"" -> JSValue("string", "", <<>>)
      [] text \in DatasetTexts -> JSArray(ParsedDatasets[text])
      [] OTHER -> JSNull

\* -------------------------------------------------------------- the files

\* data/encryption_config.json as response.json() returns it.
Config(keySize, iterations, hasher) ==
    [kind |-> "object", keySize |-> keySize, iterations |-> iterations,
     hasher |-> hasher]

ReferenceConfig == Config(Num(256), Num(100000), "SHA256")

NullConfig == [kind |-> "null", keySize |-> NotANumber,
               iterations |-> NotANumber, hasher |-> ""]

UnsetConfig == [kind |-> "unset", keySize |-> NotANumber,
                iterations |-> NotANumber, hasher |-> ""]

ConfigFiles ==
    { ReferenceConfig,
      Config(Num(256), Num(100000), "SHA512"),
      Config(NotANumber, Num(100000), "SHA256"),
      Config(Num(256), NotANumber, "SHA256"),
      NullConfig }

MalformedConfig(config) ==
    \/ config.kind # "object"
    \/ ~config.keySize.defined
    \/ ~config.iterations.defined

\* The passwords a user may type; "" is the empty input.
Secret == "ASTHMAPOSTS"

Passwords == {"", Secret, "guess"}

\* storedPassword = null
NoPassword == "<null>"

\* CryptoJS.PBKDF2(password, salt, cfg): the derived key, as the term of its
\* inputs (a key derivation without collisions).  A loop bound that is
\* undefined runs the first iteration only.
PBKDF2(password, salt, cfg) ==
    [password |-> password, salt |-> salt, keySize |-> cfg.keySize,
     iterations |-> IF cfg.iterations.defined THEN cfg.iterations ELSE Num(1),
     hasher |-> cfg.hasher]

\* config.keySize / 32
KeySizeWords(keySize) ==
    IF keySize.defined THEN Num(keySize.n \div 32) ELSE NotANumber

\* The ciphertext the offline converter produces for a plaintext: AES-CBC
\* under the key derived from the password with the reference parameters.
ReferenceKey(password, salt) ==
    PBKDF2(password, salt,
           [keySize |-> KeySizeWords(ReferenceConfig.keySize),
            iterations |-> ReferenceConfig.iterations,
            hasher |-> ReferenceConfig.hasher])

Ciphertext(plain, password, intact) ==
    [plain |-> plain, key |-> ReferenceKey(password, "salt"), iv |-> "iv",
     intact |-> intact]

\* data/cases.encrypted as response.json() returns it: the base64 fields
\* that are present, and the bytes they encode.
Envelope(fields, plain, password, intact) ==
    [kind |-> "object", fields |-> fields,
     ciphertext |-> Ciphertext(plain, password, intact),
     iv |-> "iv", salt |-> "salt"]

EnvelopeFields == {"ciphertext", "iv", "salt"}

NullEnvelope ==
    [kind |-> "null", fields |-> {},
     ciphertext |-> Ciphertext(BadUtf8Bytes, "", FALSE), iv |-> "", salt |-> ""]

UnsetEnvelope ==
    [kind |-> "unset", fields |-> {},
     ciphertext |-> Ciphertext(BadUtf8Bytes, "", FALSE), iv |-> "", salt |-> ""]

CasesFiles ==
    {Envelope(EnvelopeFields, p, Secret, TRUE) : p \in Plaintexts} \cup
    { Envelope(EnvelopeFields, Utf8Bytes(CasesText), Secret, FALSE),
      Envelope({"ciphertext", "iv"}, Utf8Bytes(CasesText), Secret, TRUE),
      NullEnvelope }

\* data/metadata.json
MetadataFile == JSArray(<<Case(1), Case(2)>>)

\* data/late_awakening_top20.json: the summary rows of the 3-year table
LateSummaryFile == JSArray(<<Case(1), Case(2)>>)

\* data/late_awakening_cases.encrypted
LateCasesFiles ==
    { Envelope(EnvelopeFields, Utf8Bytes(LateCasesText), Secret, TRUE),
      Envelope(EnvelopeFields, Utf8Bytes(LateCasesText), "other", TRUE) }

\* ------------------------------------------------------------------ state

VARIABLES
    \* the static files of the deployment, and what AES yields for a
    \* ciphertext under a key or IV it was not produced with
    configFile, casesFile, lateCasesFile, garbled,
    \* app.js global state (lines 9-15, 301)
    casesData, metadata, lateAwakeningData, lateAwakeningCases,
    currentCaseIndex, currentCaseSource, currentLateCaseIndex, storedPassword,
    \* the page: #password-error text, the 'hidden' class of #password-modal
    \* and #main-app, tabs, charts, tables, selectors and detail panels
    passwordError, modalHidden, appHidden,
    activeTab, tabListeners, charts, overviewRows, caseSelector, lateSelector,
    lateTable, caseDetail, lateCaseDetail,
    \* the submitPassword invocations of the session, in order of their start
    calls

files == <<configFile, casesFile, lateCasesFile, garbled>>

globals == <<casesData, metadata, lateAwakeningData, lateAwakeningCases,
             currentCaseIndex, currentCaseSource, currentLateCaseIndex,
             storedPassword>>

lock == <<modalHidden, appHidden>>

page == <<activeTab, tabListeners, charts, overviewRows, caseSelector,
          lateSelector, lateTable, caseDetail, lateCaseDetail>>

vars == <<files, globals, passwordError, lock, page, calls>>

MsgEnter == "Please enter a password"

MsgDecrypting == "Decrypting..."

MsgIncorrect == "Incorrect password. Please try again."

MsgError == "Error loading data. Please check the console."

\* ------------------------------------------------------------ decryptData

\* CryptoJS.AES.decrypt in CBC mode with Pkcs7 unpadding: the plaintext the
\* ciphertext was produced from when the key and the IV are the ones it was
\* produced with; otherwise bytes that have nothing to do with it.
AESDecrypt(ciphertext, key, iv) ==
    IF ciphertext.intact /\ ciphertext.key = key /\ ciphertext.iv = iv
    THEN ciphertext.plain
    ELSE garbled

\* A key derivation that takes config.keySize for a number of words.
DeriveKeyBits(encrypted, password, config) ==
    PBKDF2(password, encrypted.salt,
           [keySize |-> config.keySize,
            iterations |-> config.iterations,
            hasher |-> "SHA256"])

\* The PBKDF2 call of decryptData.
DeriveKey(encrypted, password, config) ==
    PBKDF2(password, encrypted.salt,
           [keySize |-> KeySizeWords(config.keySize),
            iterations |-> config.iterations,
            hasher |-> "SHA256"])

\* A decryptData whose catch block returns an empty dataset, not null.
decryptDataNoCatch(encrypted, password, config) ==
    IF encrypted.kind # "object" \/ EnvelopeFields \ encrypted.fields # {}
       \/ password = NoPassword \/ config.kind # "object"
    THEN JSArray(<<>>)
    ELSE LET bytes == AESDecrypt(encrypted.ciphertext,
                                 DeriveKey(encrypted, password, config),
                                 encrypted.iv)
         IN  IF Utf8Throws(bytes) THEN JSArray(<<>>)
             ELSE IF JSONThrows(Utf8Stringify(bytes)) THEN JSArray(<<>>)
             ELSE JSONParse(Utf8Stringify(bytes))

\* A decryptData that prefers the password the session has stored to its
\* argument.
decryptDataStateful(encrypted, password, config) ==
    LET used == IF storedPassword # NoPassword THEN storedPassword
                ELSE password
    IN  IF encrypted.kind # "object" \/ EnvelopeFields \ encrypted.fields # {}
           \/ used = NoPassword \/ config.kind # "object"
        THEN JSNull
        ELSE LET bytes == AESDecrypt(encrypted.ciphertext,
                                     DeriveKey(encrypted, used, config),
                                     encrypted.iv)
             IN  IF Utf8Throws(bytes) THEN JSNull
                 ELSE IF JSONThrows(Utf8Stringify(bytes)) THEN JSNull
                 ELSE JSONParse(Utf8Stringify(bytes))

\* Lines 65-93: every throw inside the try block ends in `return null`.
decryptData(encrypted, password, config) ==
    IF encrypted.kind # "object" THEN JSNull
    ELSE IF EnvelopeFields \ encrypted.fields # {} THEN JSNull
    ELSE IF password = NoPassword THEN JSNull
    ELSE IF config.kind # "object" THEN JSNull
    ELSE LET key == DeriveKey(encrypted, password, config)
             decrypted == AESDecrypt(encrypted.ciphertext, key, encrypted.iv)
         IN  IF Utf8Throws(decrypted) THEN JSNull
             ELSE IF JSONThrows(Utf8Stringify(decrypted)) THEN JSNull
             ELSE JSONParse(Utf8Stringify(decrypted))

\* ------------------------------------------------------------------- Init

NoSelection == 0 - 1

\* A <select>: its options' values, its 'change' listeners, its value.
EmptySelector == [options |-> <<>>, listeners |-> 0, value |-> NoSelection]

\* What renderMechanismChain returns: the markup of one of the four chains,
\* by its name and the number of its steps, or the empty string.
Chain(name, steps) == [name |-> name, steps |-> steps]

NoChain == Chain("", 0)

\* The sections of the markup a renderer assigns to its container.
Html(chain, prince, evidence, analysis) ==
    [chain |-> chain, prince |-> prince, evidence |-> evidence,
     analysis |-> analysis]

NoHtml == Html(NoChain, FALSE, FALSE, FALSE)

\* The #case-detail panel: the dataset and the index of the case it shows,
\* its markup, and whether the timeline chart was drawn.
Detail(source, index, html, timeline) ==
    [source |-> source, index |-> index, html |-> html,
     timeline |-> timeline]

NoDetail == Detail("none", NoSelection, NoHtml, FALSE)

\* The deployments considered: the reference deployment, and those that
\* differ from it in one file.
ReferenceCases == Envelope(EnvelopeFields, Utf8Bytes(CasesText), Secret, TRUE)

ReferenceLateCases ==
    Envelope(EnvelopeFields, Utf8Bytes(LateCasesText), Secret, TRUE)

Deployment(config, cases, late) ==
    [config |-> config, cases |-> cases, late |-> late]

Deployments ==
    {Deployment(ReferenceConfig, c, ReferenceLateCases) : c \in CasesFiles}
    \cup
    {Deployment(k, ReferenceCases, ReferenceLateCases) : k \in ConfigFiles}
    \cup
    {Deployment(ReferenceConfig, ReferenceCases, l) : l \in LateCasesFiles}

ReferenceDeployment ==
    Deployment(ReferenceConfig, ReferenceCases, ReferenceLateCases)

\* What a decryption under a wrong key can yield: bytes that do not decode,
\* a text that does not parse and, far less likely, a text that parses.
ParseableGarbage == Utf8Bytes("[]")

GarbledOutcomes == {BadUtf8Bytes, Utf8Bytes(""), ParseableGarbage}

\* The page as loaded (lines 9-15 and 301), on deployment d with a cipher
\* that yields g under a wrong key.
Load(d, g) ==
    /\ configFile = d.config
    /\ casesFile = d.cases
    /\ lateCasesFile = d.late
    /\ garbled = g
    /\ casesData = JSArray(<<>>)
    /\ metadata = JSArray(<<>>)
    /\ lateAwakeningData = JSArray(<<>>)
    /\ lateAwakeningCases = JSArray(<<>>)
    /\ currentCaseIndex = NoSelection
    /\ currentCaseSource = "main"
    /\ currentLateCaseIndex = NoSelection
    /\ storedPassword = NoPassword
    /\ passwordError = ""
    /\ modalHidden = FALSE
    /\ appHidden = TRUE
    /\ activeTab = "overview"
    /\ tabListeners = 0
    /\ charts = 0
    /\ overviewRows = <<>>
    /\ caseSelector = EmptySelector
    /\ lateSelector = EmptySelector
    /\ lateTable = <<>>
    /\ caseDetail = NoDetail
    /\ lateCaseDetail = NoSelection
    /\ calls = <<>>

\* Every deployment with a cipher whose garbage does not decode, and the
\* reference deployment with each kind of garbage.
Init ==
    \E d \in Deployments, g \in GarbledOutcomes :
        /\ d = ReferenceDeployment \/ g = BadUtf8Bytes
        /\ Load(d, g)

\* The deployments of the liveness check.
LiveDeployments ==
    { ReferenceDeployment,
      Deployment(ReferenceConfig, NullEnvelope, ReferenceLateCases) }

LiveInit == \E d \in LiveDeployments : Load(d, BadUtf8Bytes)

\* --------------------------------------------------------- submitPassword

\* The frame of one submitPassword invocation: where it is, its locals, how
\* it ended, and the locals of the loadLateAwakeningData it started (with
\* the password argument of its decryptData call).
NewCall(password) ==
    [pc |-> "fetchConfig", password |-> password, config |-> UnsetConfig,
     encrypted |-> UnsetEnvelope, decrypted |-> JSUndefined,
     outcome |-> "pending",
     lateConfig |-> UnsetConfig, lateEncrypted |-> UnsetEnvelope,
     latePassword |-> NoPassword, lateDecrypted |-> JSUndefined]

At(i, pc) == i \in DOMAIN calls /\ calls[i].pc = pc

Goto(i, pc) == calls' = [calls EXCEPT ![i].pc = pc]

\* Lines 19-32: up to the first await.
submitPassword(password) ==
    IF password = ""
    THEN /\ passwordError' = MsgEnter
         /\ UNCHANGED <<files, globals, lock, page, calls>>
    ELSE /\ Len(calls) < MaxCalls
         /\ passwordError' = MsgDecrypting
         /\ calls' = Append(calls, NewCall(password))
         /\ UNCHANGED <<files, globals, lock, page>>

\* Lines 96-100: the keypress listener of #password-input.
Keys == {"Enter", "a"}

Keypress(key, password) ==
    IF key = "Enter"
    THEN submitPassword(password)
    ELSE UNCHANGED vars

\* The submit button of the password modal.
SubmitClick(password) == submitPassword(password)

\* A catch block that also puts the password modal back.
CatchRelock(i) ==
    /\ passwordError' = MsgError
    /\ calls' = [calls EXCEPT ![i].pc = "done", ![i].outcome = "error"]
    /\ modalHidden' = FALSE
    /\ appHidden' = TRUE
    /\ UNCHANGED <<files, globals, page>>

\* A catch block that reports a wrong password.
CatchIncorrect(i) ==
    /\ passwordError' = MsgIncorrect
    /\ calls' = [calls EXCEPT ![i].pc = "done", ![i].outcome = "error"]
    /\ UNCHANGED <<files, globals, lock, page>>

\* A catch block that only logs to the console.
CatchSilent(i) ==
    /\ calls' = [calls EXCEPT ![i].pc = "done", ![i].outcome = "error"]
    /\ UNCHANGED <<files, globals, passwordError, lock, page>>

\* Lines 59-62: the catch block of submitPassword.
Catch(i) ==
    /\ passwordError' = MsgError
    /\ calls' = [calls EXCEPT ![i].pc = "done", ![i].outcome = "error"]
    /\ UNCHANGED <<files, globals, lock, page>>

\* How the two awaits of one file (the fetch, then the body of its response)
\* end.  Nothing shared is read or written between the two, so they are one
\* step; a rejection of either is thrown at the await.
FetchResults == {"resolved", "fetch rejected", "json rejected"}

\* A submitPassword that starts the fetch of the config and goes on without
\* awaiting it.
AwaitConfigNotAwaited(i) ==
    /\ At(i, "fetchConfig")
    /\ Goto(i, "fetchCases")
    /\ UNCHANGED <<files, globals, passwordError, lock, page>>

\* Lines 32-36: config = await (await fetch(config)).json(), then the next
\* fetch.
AwaitConfig(i) ==
    /\ At(i, "fetchConfig")
    /\ \E result \in FetchResults :
          IF result = "resolved"
          THEN /\ calls' = [calls EXCEPT ![i].pc = "fetchCases",
                                         ![i].config = configFile]
               /\ UNCHANGED <<files, globals, passwordError, lock, page>>
          ELSE Catch(i)

\* An else branch that keeps the password that was tried.
RejectPasswordStored(i, encrypted, decrypted) ==
    /\ passwordError' = MsgIncorrect
    /\ storedPassword' = calls[i].password
    /\ calls' = [calls EXCEPT ![i].pc = "done", ![i].encrypted = encrypted,
                              ![i].decrypted = decrypted,
                              ![i].outcome = "incorrect"]
    /\ UNCHANGED <<files, casesData, metadata, lateAwakeningData,
                   lateAwakeningCases, currentCaseIndex, currentCaseSource,
                   currentLateCaseIndex, lock, page>>

\* An else branch that empties the dataset.
RejectPasswordClears(i, encrypted, decrypted) ==
    /\ passwordError' = MsgIncorrect
    /\ casesData' = JSArray(<<>>)
    /\ calls' = [calls EXCEPT ![i].pc = "done", ![i].encrypted = encrypted,
                              ![i].decrypted = decrypted,
                              ![i].outcome = "incorrect"]
    /\ UNCHANGED <<files, metadata, lateAwakeningData, lateAwakeningCases,
                   currentCaseIndex, currentCaseSource, currentLateCaseIndex,
                   storedPassword, lock, page>>

\* Lines 56-58: decryptData returned a falsy value.
RejectPassword(i, encrypted, decrypted) ==
    /\ passwordError' = MsgIncorrect
    /\ calls' = [calls EXCEPT ![i].pc = "done", ![i].encrypted = encrypted,
                              ![i].decrypted = decrypted,
                              ![i].outcome = "incorrect"]
    /\ UNCHANGED <<files, globals, lock, page>>

\* Lines 42-47: decryptData returned a truthy value.
AcceptPassword(i, encrypted, decrypted) ==
    /\ casesData' = decrypted
    /\ storedPassword' = calls[i].password
    /\ calls' = [calls EXCEPT ![i].pc = "fetchMetadata",
                              ![i].encrypted = encrypted,
                              ![i].decrypted = decrypted]
    /\ UNCHANGED <<files, metadata, lateAwakeningData, lateAwakeningCases,
                   currentCaseIndex, currentCaseSource, currentLateCaseIndex,
                   passwordError, lock, page>>

\* Lines 36-47 and 56-58: encrypted = await (await fetch(cases)).json(), the
\* decryptData call and the branch on its result.
AwaitCases(i) ==
    /\ At(i, "fetchCases")
    /\ \E result \in FetchResults :
          IF result = "resolved"
          THEN LET encrypted == casesFile
                   decrypted == decryptData(encrypted, calls[i].password,
                                            calls[i].config)
               IN  IF Truthy(decrypted)
                   THEN AcceptPassword(i, encrypted, decrypted)
                   ELSE RejectPassword(i, encrypted, decrypted)
          ELSE Catch(i)

\* ------------------------------------------------------------ initializeApp

IsArray(v) == v.t = "array"

\* v.length of a value that is an array (undefined otherwise: comparisons
\* with it are false).
Length(v) == Len(v.items)

Indices(v) == [k \in 1..Len(v.items) |-> k - 1]

\* Lines 544-559: one option per element of casesData, and one more listener.
populateCaseSelector ==
    [caseSelector EXCEPT !.options = @ \o Indices(casesData),
                         !.listeners = @ + 1]

\* Lines 303-320, over the value just assigned to lateAwakeningCases.
populateLateCaseSelector(cases) ==
    [lateSelector EXCEPT !.options = @ \o Indices(cases),
                         !.listeners = @ + 1]

\* A table that compares the number of cases with `>=`.
renderLateAwakeningTableOffByOne(data, cases) ==
    [k \in 1..Len(data.items) |->
        IF IsArray(cases) /\ Length(cases) >= k - 1 THEN "View" ELSE "Pending"]

\* Lines 143-179: one row per summary item; 'View' where a detailed case
\* exists (line 161), 'Pending' elsewhere.
renderLateAwakeningTable(data, cases) ==
    [k \in 1..Len(data.items) |->
        IF IsArray(cases) /\ Length(cases) > k - 1 THEN "View" ELSE "Pending"]

\* The invocation has unlocked the app; initializeApp continues at pc.
Unlocked(i, pc) ==
    calls' = [calls EXCEPT ![i].pc = pc, ![i].outcome = "unlocked"]

\* Lines 104-109 and 113-116: initializeTabs, renderOverview,
\* populateCaseSelector, and loadLateAwakeningData up to its first await.
\* `new Chart` on a canvas that already carries a chart throws in some
\* versions of the charting library and not in others; whatever throws
\* rejects initializeApp's promise, which nobody awaits.
initializeApp(i, md) ==
    /\ tabListeners' = tabListeners + 1
    /\ \E chartThrows \in {FALSE, charts > 0} :
          IF chartThrows \/ ~IsArray(md)
          THEN /\ Unlocked(i, "done")
               /\ UNCHANGED <<charts, overviewRows, caseSelector>>
          ELSE /\ charts' = charts + 2
               /\ overviewRows' = md.items
               /\ IF IsArray(casesData)
                  THEN /\ caseSelector' = populateCaseSelector
                       /\ Unlocked(i, "fetchLateSummary")
                  ELSE /\ UNCHANGED caseSelector
                       /\ Unlocked(i, "done")
    /\ UNCHANGED <<activeTab, lateSelector, lateTable, caseDetail,
                   lateCaseDetail>>

\* Lines 48-55: metadata = the parsed file, hide the modal, show the app,
\* initializeApp().
Unlock(i) ==
    /\ metadata' = MetadataFile
    /\ modalHidden' = TRUE
    /\ appHidden' = FALSE
    /\ initializeApp(i, MetadataFile)
    /\ UNCHANGED <<files, casesData, lateAwakeningData, lateAwakeningCases,
                   currentCaseIndex, currentCaseSource, currentLateCaseIndex,
                   storedPassword, passwordError>>

\* Lines 47-55: the awaits of the metadata, and what follows them.
AwaitMetadata(i) ==
    /\ At(i, "fetchMetadata")
    /\ \E result \in FetchResults :
          IF result = "resolved" THEN Unlock(i) ELSE Catch(i)

\* ------------------------------------------------- loadLateAwakeningData

\* Lines 138-140: the outer catch; the table is not rendered.
LateCatch(i) ==
    /\ Goto(i, "done")
    /\ UNCHANGED <<files, globals, passwordError, lock, page>>

\* Lines 133-137: the inner catch, then renderLateAwakeningTable().
LateUnavailable(i) ==
    /\ Goto(i, "done")
    /\ lateTable' = renderLateAwakeningTable(lateAwakeningData,
                                             lateAwakeningCases)
    /\ UNCHANGED <<files, globals, passwordError, lock, activeTab,
                   tabListeners, charts, overviewRows, caseSelector,
                   lateSelector, caseDetail, lateCaseDetail>>

\* Lines 116-121: lateAwakeningData = await (await fetch(summary)).json(),
\* then the fetch of the config.
AwaitLateSummary(i) ==
    /\ At(i, "fetchLateSummary")
    /\ \E result \in FetchResults :
          IF result = "resolved"
          THEN /\ lateAwakeningData' = LateSummaryFile
               /\ Goto(i, "fetchLateConfig")
               /\ UNCHANGED <<files, casesData, metadata, lateAwakeningCases,
                              currentCaseIndex, currentCaseSource,
                              currentLateCaseIndex, storedPassword,
                              passwordError, lock, page>>
          ELSE LateCatch(i)

\* Lines 121-124: config = await (await fetch(config)).json(), then the next
\* fetch.
AwaitLateConfig(i) ==
    /\ At(i, "fetchLateConfig")
    /\ \E result \in FetchResults :
          IF result = "resolved"
          THEN /\ calls' = [calls EXCEPT ![i].pc = "fetchLateCases",
                                         ![i].lateConfig = configFile]
               /\ UNCHANGED <<files, globals, passwordError, lock, page>>
          ELSE LateUnavailable(i)

\* Lines 124-137: encrypted = await (await fetch(late cases)).json(),
\* decryptData with storedPassword, the assignment of lateAwakeningCases,
\* populateLateCaseSelector and renderLateAwakeningTable.
AwaitLateCases(i) ==
    /\ At(i, "fetchLateCases")
    /\ \E result \in FetchResults :
          IF result = "resolved"
          THEN LET encrypted == lateCasesFile
                   decrypted == decryptData(encrypted, storedPassword,
                                            calls[i].lateConfig)
                   cases == IF Truthy(decrypted) THEN decrypted
                            ELSE lateAwakeningCases
               IN  /\ calls' = [calls EXCEPT ![i].pc = "done",
                                             ![i].lateEncrypted = encrypted,
                                             ![i].latePassword = storedPassword,
                                             ![i].lateDecrypted = decrypted]
                   /\ lateAwakeningCases' = cases
                   /\ lateSelector' =
                         IF Truthy(decrypted) /\ IsArray(decrypted)
                         THEN populateLateCaseSelector(decrypted)
                         ELSE lateSelector
                   /\ lateTable' =
                         renderLateAwakeningTable(lateAwakeningData, cases)
                   /\ UNCHANGED <<files, casesData, metadata, lateAwakeningData,
                                  currentCaseIndex, currentCaseSource,
                                  currentLateCaseIndex, storedPassword,
                                  passwordError, lock, activeTab, tabListeners,
                                  charts, overviewRows, caseSelector,
                                  caseDetail, lateCaseDetail>>
          ELSE LateUnavailable(i)

\* ------------------------------------------------------------- navigation

Tabs == {"overview", "cases", "late-awakening"}

Values(seq) == {seq[k] : k \in DOMAIN seq}

\* element.value = v on a <select>: no option with that value selects none.
SetValue(selector, v) ==
    [selector EXCEPT !.value = IF v \in Values(selector.options) THEN v
                               ELSE NoSelection]

InRange(v, index) == IsArray(v) /\ index >= 0 /\ index < Length(v)

\* String.prototype.includes, on sequences of words.
Includes(words, phrase) ==
    \E k \in 0..(Len(words) - Len(phrase)) :
        SubSeq(words, k + 1, k + Len(phrase)) = phrase

\* A renderMechanismChain that matches 'New User Discovery' as it matches
\* the other labels.
renderMechanismChainIncludes(c) ==
    LET mechanism == IF c.mechanism.present THEN c.mechanism.words ELSE <<>>
    IN  IF Includes(mechanism, ExternalEvent)
           /\ Includes(mechanism, ContextualDiscovery)
        THEN Chain("external-event", 5)
        ELSE IF Includes(mechanism, AuthorSeriesContinuation)
                /\ ~Includes(mechanism, Possible)
        THEN Chain("series", 4)
        ELSE IF Includes(mechanism, AuthorSelfPromotion)
        THEN Chain("self-promotion", 5)
        ELSE IF Includes(mechanism, NewUserDiscovery)
        THEN Chain("discovery", 4)
        ELSE NoChain

\* Lines 935-1128
renderMechanismChain(c) ==
    LET mechanism == IF c.mechanism.present THEN c.mechanism.words ELSE <<>>
    IN  IF Includes(mechanism, ExternalEvent)
           /\ Includes(mechanism, ContextualDiscovery)
        THEN Chain("external-event", 5)
        ELSE IF Includes(mechanism, AuthorSeriesContinuation)
                /\ ~Includes(mechanism, Possible)
        THEN Chain("series", 4)
        ELSE IF Includes(mechanism, AuthorSelfPromotion)
        THEN Chain("self-promotion", 5)
        ELSE IF mechanism = NewUserDiscovery
        THEN Chain("discovery", 4)
        ELSE NoChain

\* Lines 669-681: isAuthorSelfPromo (computed, and read nowhere) and whether
\* authorCommentsElsewhere.find(...) finds a comment.
isAuthorSelfPromo(c) ==
    c.mechanism.present /\ Includes(c.mechanism.words, AuthorSelfPromotion)

relatedComment(c) ==
    LET authorCommentsElsewhere ==
            IF c.exploration.present
            THEN c.exploration.author_comments_elsewhere
            ELSE <<>>
    IN  \E k \in DOMAIN authorCommentsElsewhere :
            \/ authorCommentsElsewhere[k].thread_id = c.prince_post.post_id
            \/ authorCommentsElsewhere[k].links

\* Lines 732-740: exploration.author_posts of a missing exploration throws.
AnalysisThrows(exploration) == ~exploration.present

\* Lines 597-723: the markup renderCase builds for a record.
CaseHtml(c) ==
    Html(renderMechanismChain(c), c.prince_post.present,
         c.prince_post.present /\ relatedComment(c), TRUE)

\* Lines 587-730: currentCaseIndex is assigned first; reading a field of
\* casesData[index] throws when there is no such element, and
\* renderAwakeningAnalysis throws on a record without exploration: the
\* panel then keeps what it showed.  Otherwise the markup is assigned and
\* the timeline chart drawn.
renderCase(index) ==
    /\ currentCaseIndex' = index
    /\ caseDetail' =
          IF InRange(casesData, index)
             /\ ~AnalysisThrows(casesData.items[index + 1].exploration)
          THEN Detail("main", index, CaseHtml(casesData.items[index + 1]),
                      TRUE)
          ELSE caseDetail

\* Lines 336-432, likewise for the 3-year case browser.
renderLateCaseInTab(index) ==
    /\ currentLateCaseIndex' = index
    /\ lateCaseDetail' = IF InRange(lateAwakeningCases, index) THEN index
                         ELSE lateCaseDetail

\* Lines 437-445: the click listener of a tab button.
TabClick(tab) ==
    /\ ~appHidden
    /\ tabListeners > 0
    /\ activeTab' = tab
    /\ UNCHANGED <<files, globals, passwordError, lock, tabListeners, charts,
                   overviewRows, caseSelector, lateSelector, lateTable,
                   caseDetail, lateCaseDetail, calls>>

\* Lines 561-571, from the 'View' button of an overview row (line 536).
viewCase(index) ==
    /\ activeTab' = "cases"
    /\ caseSelector' = SetValue(caseSelector, index)
    /\ renderCase(index)
    /\ UNCHANGED <<files, casesData, metadata, lateAwakeningData,
                   lateAwakeningCases, currentCaseSource, currentLateCaseIndex,
                   storedPassword, passwordError, lock, tabListeners, charts,
                   overviewRows, lateSelector, lateTable, lateCaseDetail,
                   calls>>

ViewClick(row) ==
    /\ ~appHidden
    /\ row \in DOMAIN overviewRows
    /\ viewCase(overviewRows[row].rank - 1)

\* Lines 553-558: the user picks an option of #case-selector; every
\* registered listener renders the case.
CaseSelectorChange(v) ==
    /\ ~appHidden
    /\ v \in Values(caseSelector.options) \cup {NoSelection}
    /\ caseSelector' = [caseSelector EXCEPT !.value = v]
    /\ IF caseSelector.listeners > 0 /\ v # NoSelection
       THEN renderCase(v)
       ELSE UNCHANGED <<currentCaseIndex, caseDetail>>
    /\ UNCHANGED <<files, casesData, metadata, lateAwakeningData,
                   lateAwakeningCases, currentCaseSource, currentLateCaseIndex,
                   storedPassword, passwordError, lock, activeTab,
                   tabListeners, charts, overviewRows, lateSelector, lateTable,
                   lateCaseDetail, calls>>

\* Lines 573-578
prevCase ==
    /\ ~appHidden
    /\ IF currentCaseIndex > 0
       THEN /\ caseSelector' = SetValue(caseSelector, currentCaseIndex - 1)
            /\ renderCase(currentCaseIndex - 1)
       ELSE UNCHANGED <<caseSelector, currentCaseIndex, caseDetail>>
    /\ UNCHANGED <<files, casesData, metadata, lateAwakeningData,
                   lateAwakeningCases, currentCaseSource, currentLateCaseIndex,
                   storedPassword, passwordError, lock, activeTab,
                   tabListeners, charts, overviewRows, lateSelector, lateTable,
                   lateCaseDetail, calls>>

\* Lines 580-585
nextCase ==
    /\ ~appHidden
    /\ IF IsArray(casesData) /\ currentCaseIndex < Length(casesData) - 1
       THEN /\ caseSelector' = SetValue(caseSelector, currentCaseIndex + 1)
            /\ renderCase(currentCaseIndex + 1)
       ELSE UNCHANGED <<caseSelector, currentCaseIndex, caseDetail>>
    /\ UNCHANGED <<files, casesData, metadata, lateAwakeningData,
                   lateAwakeningCases, currentCaseSource, currentLateCaseIndex,
                   storedPassword, passwordError, lock, activeTab,
                   tabListeners, charts, overviewRows, lateSelector, lateTable,
                   lateCaseDetail, calls>>

\* Lines 181-197, from a 'View' button of the 3-year table (line 163).
viewLateAwakeningCase(index) ==
    IF ~(IsArray(lateAwakeningCases) /\ index < Length(lateAwakeningCases))
    THEN UNCHANGED vars
    ELSE /\ activeTab' = "cases"
         /\ currentCaseSource' = "late"
         /\ currentCaseIndex' = index
         /\ caseDetail' = Detail("late", index, NoHtml, TRUE)
         /\ UNCHANGED <<files, casesData, metadata, lateAwakeningData,
                        lateAwakeningCases, currentLateCaseIndex,
                        storedPassword, passwordError, lock, tabListeners,
                        charts, overviewRows, caseSelector, lateSelector,
                        lateTable, lateCaseDetail, calls>>

LateViewClick(row) ==
    /\ ~appHidden
    /\ row \in DOMAIN lateTable
    /\ lateTable[row] = "View"
    /\ viewLateAwakeningCase(row - 1)

LateFrame ==
    UNCHANGED <<files, casesData, metadata, lateAwakeningData,
                lateAwakeningCases, currentCaseIndex, currentCaseSource,
                storedPassword, passwordError, lock, activeTab, tabListeners,
                charts, overviewRows, caseSelector, lateTable, caseDetail,
                calls>>

\* Lines 314-319: the user picks an option of #late-case-selector.
LateCaseSelectorChange(v) ==
    /\ ~appHidden
    /\ v \in Values(lateSelector.options) \cup {NoSelection}
    /\ lateSelector' = [lateSelector EXCEPT !.value = v]
    /\ IF lateSelector.listeners > 0 /\ v # NoSelection
       THEN renderLateCaseInTab(v)
       ELSE UNCHANGED <<currentLateCaseIndex, lateCaseDetail>>
    /\ LateFrame

\* Lines 322-327
prevLateCase ==
    /\ ~appHidden
    /\ IF currentLateCaseIndex > 0
       THEN /\ lateSelector' = SetValue(lateSelector, currentLateCaseIndex - 1)
            /\ renderLateCaseInTab(currentLateCaseIndex - 1)
       ELSE UNCHANGED <<lateSelector, currentLateCaseIndex, lateCaseDetail>>
    /\ LateFrame

\* Lines 329-334
nextLateCase ==
    /\ ~appHidden
    /\ IF IsArray(lateAwakeningCases)
          /\ currentLateCaseIndex < Length(lateAwakeningCases) - 1
       THEN /\ lateSelector' = SetValue(lateSelector, currentLateCaseIndex + 1)
            /\ renderLateCaseInTab(currentLateCaseIndex + 1)
       ELSE UNCHANGED <<lateSelector, currentLateCaseIndex, lateCaseDetail>>
    /\ LateFrame

\* ------------------------------------------------------------------- Next

\* A promise an invocation awaits settles, and the invocation runs on to its
\* next await or to its end.
Settle(i) ==
    \/ AwaitConfig(i)
    \/ AwaitCases(i)
    \/ AwaitMetadata(i)
    \/ AwaitLateSummary(i)
    \/ AwaitLateConfig(i)
    \/ AwaitLateCases(i)

Next ==
    \/ \E key \in Keys, password \in Passwords : Keypress(key, password)
    \/ \E password \in Passwords : SubmitClick(password)
    \/ \E i \in 1..MaxCalls : Settle(i)
    \/ \E tab \in Tabs : TabClick(tab)
    \/ \E row \in 1..Len(overviewRows) : ViewClick(row)
    \/ \E v \in Values(caseSelector.options) \cup {NoSelection} :
          CaseSelectorChange(v)
    \/ prevCase
    \/ nextCase
    \/ \E row \in 1..Len(lateTable) : LateViewClick(row)
    \/ \E v \in Values(lateSelector.options) \cup {NoSelection} :
          LateCaseSelectorChange(v)
    \/ prevLateCase
    \/ nextLateCase

Spec == Init /\ [][Next]_vars

\* Every promise an invocation awaits eventually resolves or rejects.
LiveSpec ==
    LiveInit /\ [][Next]_vars /\ \A i \in 1..MaxCalls : WF_vars(Settle(i))

\* The rendering of the records: the page as loaded on the reference
\* deployment or on one whose dataset is a single record of Records,
\* unlocked by the first submission of the password, and browsed.
RenderDeployments ==
    { Deployment(ReferenceConfig,
                 Envelope(EnvelopeFields, Utf8Bytes(DatasetText(<<c>>)),
                          Secret, TRUE),
                 ReferenceLateCases) : c \in Records }
    \cup {ReferenceDeployment}

RenderInit == \E d \in RenderDeployments : Load(d, BadUtf8Bytes)

RenderNext ==
    \/ calls = <<>> /\ SubmitClick(Secret)
    \/ \E i \in DOMAIN calls : Settle(i)
    \/ \E tab \in Tabs : TabClick(tab)
    \/ \E row \in 1..Len(overviewRows) : ViewClick(row)
    \/ \E v \in Values(caseSelector.options) \cup {NoSelection} :
          CaseSelectorChange(v)
    \/ prevCase
    \/ nextCase

RenderSpec == RenderInit /\ [][RenderNext]_vars

\* ----------------------------------------------------------------- claims

Started == DOMAIN calls

\* Invocation i is between its 'Decrypting...' step and its outcome.
Verifying(i) == calls[i].outcome = "pending"

\* The step is one of invocation i.
StepOf(i) == calls'[i] # calls[i]

\* The app is unlocked: the modal is hidden and the main app is shown.
AppUnlocked == modalHidden /\ ~appHidden

LockUnchanged == modalHidden' = modalHidden /\ appHidden' = appHidden

\* The password the envelopes of the deployment were produced with.
EnvelopePassword(encrypted) == encrypted.ciphertext.key.password

\* decryptData on these arguments fails: the envelope or the config is not
\* an object, a field of the envelope is missing, or the decrypted bytes do
\* not decode or do not parse.
DecryptBytes(encrypted, password, config) ==
    AESDecrypt(encrypted.ciphertext,
               PBKDF2(password, encrypted.salt,
                      [keySize |-> KeySizeWords(config.keySize),
                       iterations |-> config.iterations, hasher |-> "SHA256"]),
               encrypted.iv)

DecryptFails(encrypted, password, config) ==
    \/ encrypted.kind # "object"
    \/ EnvelopeFields \ encrypted.fields # {}
    \/ config.kind # "object"
    \/ ~DecryptBytes(encrypted, password, config).valid
    \/ DecryptBytes(encrypted, password, config).text
          \notin {"null", "false", "0", "\"\"", "[]", CasesText, LateCasesText}

\* The step is the one in which invocation i got the main envelope and ran
\* decryptData on it.
DecryptStep(i) ==
    /\ calls[i].pc = "fetchCases"
    /\ calls'[i].encrypted.kind # "unset"

\* C1: at most one submitPassword invocation is between its 'Decrypting...'
\* step and its final outcome at any time.
OneAttemptInFlight ==
    Cardinality({i \in Started : Verifying(i)}) <= 1

\* C2 as stated: no step of an invocation whose password is not the one the
\* envelope was encrypted with assigns casesData or storedPassword, hides
\* the modal or shows the app.
WrongPasswordNeverAccepted ==
    [][\A i \in Started :
          (StepOf(i) /\ calls[i].password # EnvelopePassword(casesFile))
          => (casesData' = casesData /\ storedPassword' = storedPassword
              /\ LockUnchanged)]_vars

\* The bytes a wrong key yields decode, parse, and parse to a truthy value.
GarbageParses ==
    /\ garbled.valid
    /\ garbled.text \in {"[]", CasesText, LateCasesText}

\* C2 amended: unless the bytes the wrong key yields happen to decode and
\* parse to a truthy value, no step of an invocation with a wrong password
\* assigns casesData or storedPassword, hides the modal or shows the app.
WrongPasswordRejected ==
    [][\A i \in Started :
          (StepOf(i) /\ calls[i].password # EnvelopePassword(casesFile)
           /\ ~GarbageParses)
          => (casesData' = casesData /\ storedPassword' = storedPassword
              /\ LockUnchanged)]_vars

WrongPasswordRejectedWitness ==
    \E i \in Started :
        /\ calls[i].password # EnvelopePassword(casesFile)
        /\ calls[i].encrypted.kind = "object"
        /\ calls[i].encrypted.ciphertext.intact
        /\ calls[i].outcome = "incorrect"
        /\ appHidden

\* C3: casesData is assigned at most once in a session (every invocation
\* whose decrypted value is truthy assigns it once).
CasesDataWrittenOnce ==
    Cardinality({i \in Started : Truthy(calls[i].decrypted)}) <= 1

\* C4: once the modal is hidden and the main app shown, no step hides the
\* app or shows the modal again.
UnlockedIsTerminal == [][AppUnlocked => AppUnlocked']_vars

UnlockedIsTerminalWitness ==
    /\ AppUnlocked
    /\ caseDetail.source = "main"
    /\ activeTab = "late-awakening"
    /\ \E i, j \in Started : i < j /\ calls[i].outcome = "unlocked"
                             /\ calls[j].outcome = "error"

\* C5: every invocation with a non-empty password first shows
\* 'Decrypting...' and, when its fetches settle, ends with the main app
\* shown or with one of the two error messages on a locked app.
AttemptEnded(i) ==
    /\ i \in Started
    /\ ~Verifying(i)
    /\ \/ ~appHidden
       \/ /\ passwordError \in {MsgIncorrect, MsgError}
          /\ appHidden
          /\ ~modalHidden

EveryAttemptEnds ==
    /\ [][\A i \in 1..MaxCalls :
             (i \notin Started /\ i \in Started')
             => (passwordError' = MsgDecrypting /\ Verifying(i)')]_vars
    /\ \A i \in 1..MaxCalls :
          (i \in Started /\ Verifying(i)) ~> AttemptEnded(i)

EveryAttemptEndsWitness ==
    \E i \in Started :
        /\ calls[i].outcome = "incorrect"
        /\ passwordError = MsgIncorrect
        /\ appHidden

\* C6: when decryptData fails on the main envelope (malformed envelope,
\* undecodable or unparseable plaintext), it returns null and the step
\* reports 'Incorrect password. Please try again.' and leaves the lock, the
\* dataset and the stored password as they were.
DecryptFailureIsIncorrectPassword ==
    [][\A i \in Started :
          (DecryptStep(i)
           /\ DecryptFails(calls'[i].encrypted, calls[i].password,
                           calls[i].config))
          => (/\ calls'[i].decrypted = JSNull
              /\ calls'[i].outcome = "incorrect"
              /\ passwordError' = MsgIncorrect
              /\ LockUnchanged
              /\ casesData' = casesData
              /\ storedPassword' = storedPassword)]_vars

DecryptFailureWitness ==
    \E i \in Started :
        /\ calls[i].password = Secret
        /\ calls[i].encrypted.kind = "object"
        /\ ~calls[i].encrypted.ciphertext.intact
        /\ calls[i].outcome = "incorrect"
        /\ passwordError = MsgIncorrect
        /\ appHidden

\* The step is one in which a fetch of the config or of the envelope, or
\* the reading of its body, was rejected.
LoadRejected(i) ==
    \/ /\ calls[i].pc = "fetchConfig"
       /\ calls'[i].pc # "fetchConfig"
       /\ calls'[i].config.kind = "unset"
    \/ /\ calls[i].pc = "fetchCases"
       /\ calls'[i].pc # "fetchCases"
       /\ calls'[i].encrypted.kind = "unset"

\* C7: a rejected fetch or body of the config or the envelope is reported
\* as 'Error loading data...', never as 'Incorrect password...'; no decrypt
\* is attempted and the lock and the dataset stay as they were.
LoadFailureIsGenericError ==
    [][\A i \in Started :
          LoadRejected(i)
          => (/\ passwordError' = MsgError
              /\ calls'[i].outcome = "error"
              /\ calls'[i].decrypted = JSUndefined
              /\ LockUnchanged
              /\ casesData' = casesData
              /\ storedPassword' = storedPassword)]_vars

LoadFailureWitness ==
    \E i \in Started :
        /\ calls[i].config.kind = "object"
        /\ calls[i].encrypted.kind = "unset"
        /\ calls[i].outcome = "error"
        /\ passwordError = MsgError
        /\ appHidden

\* C8: an invocation that ran decryptData with a malformed config (not an
\* object, or without keySize or iterations) never ends with the
\* 'Incorrect password' outcome.
MalformedConfigIsFatal ==
    \A i \in Started :
        (calls[i].config.kind # "unset" /\ MalformedConfig(calls[i].config)
         /\ calls[i].encrypted.kind # "unset")
        => calls[i].outcome # "incorrect"

\* What the plaintext of the step's decryption parses to.
Parsed(i) ==
    JSONParse(DecryptBytes(calls'[i].encrypted, calls[i].password,
                           calls[i].config).text)

\* The step accepts the value: it assigns it, stores the password, writes no
\* message and goes on to the fetch of the metadata.
Accepts(i, value) ==
    /\ casesData' = value
    /\ storedPassword' = calls[i].password
    /\ passwordError' = passwordError
    /\ calls'[i].outcome = "pending"
    /\ calls'[i].pc = "fetchMetadata"

\* C9 as stated: whenever the plaintext decodes and parses, the parsed
\* value is assigned to casesData, the password is stored and the
\* invocation goes on to unlock.
EveryParsedValueAccepted ==
    [][\A i \in Started :
          (DecryptStep(i)
           /\ ~DecryptFails(calls'[i].encrypted, calls[i].password,
                            calls[i].config))
          => Accepts(i, Parsed(i))]_vars

FalsyValues ==
    {JSONParse("null"), JSONParse("false"), JSONParse("0"), JSONParse("\"\"")}

\* C9 amended: a parsed value other than null, false, 0 and the empty
\* string (the empty array included) is assigned to casesData, the password
\* is stored and the invocation goes on to the metadata; one of those four
\* values is reported as 'Incorrect password' and nothing is assigned.
TruthyParsedValueAccepted ==
    [][\A i \in Started :
          (DecryptStep(i)
           /\ ~DecryptFails(calls'[i].encrypted, calls[i].password,
                            calls[i].config))
          => IF Parsed(i) \in FalsyValues
             THEN /\ passwordError' = MsgIncorrect
                  /\ calls'[i].outcome = "incorrect"
                  /\ casesData' = casesData
                  /\ storedPassword' = storedPassword
                  /\ LockUnchanged
             ELSE Accepts(i, Parsed(i))]_vars

TruthyParsedValueWitness ==
    /\ casesData = JSArray(<<>>)
    /\ casesFile.ciphertext.plain = Utf8Bytes("[]")
    /\ storedPassword = Secret
    /\ \E i \in Started : calls[i].outcome = "unlocked"

\* C10: the key an invocation derives takes its size, its iteration count
\* and its hash algorithm from the config it loaded.
KeyDerivationFollowsConfig ==
    \A i \in Started :
        (calls[i].encrypted.kind = "object"
         /\ calls[i].config.kind = "object"
         /\ ~MalformedConfig(calls[i].config))
        => LET key == DeriveKey(calls[i].encrypted, calls[i].password,
                                calls[i].config)
           IN  /\ key.keySize = KeySizeWords(calls[i].config.keySize)
               /\ key.iterations = calls[i].config.iterations
               /\ key.hasher = calls[i].config.hasher

\* The step is the one in which the loadLateAwakeningData of invocation i
\* got the late-awakening envelope and ran decryptData on it.
LateDecryptStep(i) ==
    /\ calls[i].pc = "fetchLateCases"
    /\ calls'[i].lateEncrypted.kind # "unset"

\* Invocation i has called decryptData on the main envelope.
Decrypted(i) == calls[i].decrypted # JSUndefined

\* The loadLateAwakeningData of invocation i has called decryptData.
LateDecrypted(i) == calls[i].lateDecrypted # JSUndefined

\* C11: in both paths decryptData is called only with the config and the
\* envelope that path has fetched and parsed: while either is still pending
\* no decryption has been made, and once it is made both are the fetched
\* files.
FetchedBeforeDecrypt ==
    \A i \in Started :
        /\ calls[i].pc \in {"fetchConfig", "fetchCases"} => ~Decrypted(i)
        /\ Decrypted(i)
           => /\ calls[i].config.kind # "unset"
              /\ calls[i].config = configFile
              /\ calls[i].encrypted.kind # "unset"
              /\ calls[i].encrypted = casesFile
        /\ calls[i].pc \in {"fetchLateSummary", "fetchLateConfig",
                            "fetchLateCases"} => ~LateDecrypted(i)
        /\ LateDecrypted(i)
           => /\ calls[i].lateConfig.kind # "unset"
              /\ calls[i].lateConfig = configFile
              /\ calls[i].lateEncrypted.kind # "unset"
              /\ calls[i].lateEncrypted = lateCasesFile

FetchedBeforeDecryptWitness ==
    \E i, j \in Started :
        /\ Decrypted(i)
        /\ LateDecrypted(i)
        /\ calls[j].pc = "fetchCases"

\* Invocation j's decryptData call on the main envelope returned a truthy
\* value for password p.
Verified(j, p) == Truthy(calls[j].decrypted) /\ calls[j].password = p

\* C12: storedPassword is null exactly until some invocation's decryptData
\* call on the main envelope returns a truthy value; then it is the password
\* of such an invocation, and the late-awakening envelope is decrypted only
\* with such a password.
StoredPasswordIsVerified ==
    /\ storedPassword = NoPassword
       <=> ~(\E j \in Started : Truthy(calls[j].decrypted))
    /\ storedPassword # NoPassword
       => \E j \in Started : Verified(j, storedPassword)
    /\ \A i \in Started :
          LateDecrypted(i)
          => /\ calls[i].latePassword # NoPassword
             /\ \E j \in Started : Verified(j, calls[i].latePassword)

StoredPasswordIsVerifiedWitness ==
    \E i, j \in Started :
        /\ LateDecrypted(i)
        /\ calls[i].latePassword = Secret
        /\ calls[j].outcome = "incorrect"
        /\ calls[j].password # Secret
        /\ storedPassword = Secret

\* C13: casesData changes only in a step in which an invocation's
\* decryptData returned a truthy value (to that value), lateAwakeningCases
\* only in such a step of loadLateAwakeningData; every other step leaves
\* both unchanged, and no step changes a file of the deployment.
DatasetsOnlyFromDecryption ==
    [][/\ casesData' # casesData
          => \E i \in Started :
                /\ DecryptStep(i)
                /\ Truthy(calls'[i].decrypted)
                /\ casesData' = calls'[i].decrypted
       /\ lateAwakeningCases' # lateAwakeningCases
          => \E i \in Started :
                /\ LateDecryptStep(i)
                /\ Truthy(calls'[i].lateDecrypted)
                /\ lateAwakeningCases' = calls'[i].lateDecrypted
       /\ files' = files]_vars

DatasetsOnlyFromDecryptionWitness ==
    /\ casesData = JSArray(<<Case(1), Case(2)>>)
    /\ lateAwakeningCases = JSArray(<<Case(1)>>)
    /\ caseDetail.source = "late"
    /\ currentLateCaseIndex = 0
    /\ activeTab = "late-awakening"
    /\ \E j \in Started : calls[j].outcome = "incorrect"

\* What decryptData returns as a function of its three arguments alone.
DecryptResult(encrypted, password, config) ==
    IF password = NoPassword \/ DecryptFails(encrypted, password, config)
    THEN JSNull
    ELSE JSONParse(DecryptBytes(encrypted, password, config).text)

\* C14: a step that calls decryptData changes nothing but what its caller
\* assigns from the result: when the result is falsy the globals and the
\* lock are as before, and the result is the function of the three
\* arguments.
DecryptDataIsPure ==
    [][\A i \in Started :
          /\ DecryptStep(i)
             => /\ calls'[i].decrypted =
                      DecryptResult(calls'[i].encrypted, calls[i].password,
                                    calls[i].config)
                /\ UNCHANGED <<metadata, lateAwakeningData, lateAwakeningCases,
                               currentCaseIndex, currentCaseSource, lock>>
                /\ IF Truthy(calls'[i].decrypted)
                   THEN /\ casesData' = calls'[i].decrypted
                        /\ storedPassword' = calls[i].password
                   ELSE UNCHANGED <<casesData, storedPassword>>
          /\ LateDecryptStep(i)
             => /\ calls'[i].lateDecrypted =
                      DecryptResult(calls'[i].lateEncrypted, storedPassword,
                                    calls[i].lateConfig)
                /\ UNCHANGED <<casesData, metadata, lateAwakeningData,
                               currentCaseIndex, currentCaseSource,
                               storedPassword, lock>>
                /\ IF Truthy(calls'[i].lateDecrypted)
                   THEN lateAwakeningCases' = calls'[i].lateDecrypted
                   ELSE UNCHANGED lateAwakeningCases]_vars

DecryptDataIsPureWitness ==
    \E i, j \in Started :
        /\ i # j
        /\ Truthy(calls[i].decrypted)
        /\ calls[i].lateDecrypted = JSNull
        /\ calls[j].decrypted = JSNull
        /\ storedPassword = Secret

\* JSON.stringify of a parsed value: the text that parses to it.
JSONStringify(v) ==
    CASE v = JSNull -> "null"
      [] v = JSValue("boolean", "false", <<>>) -> "false"
      [] v = JSValue("number", "0", <<>>) -> "0"
      [] v = JSValue("string", "", <<>>) -> "\"\""
      [] v = JSArray(<<>>) -> "[]"
      [] v = JSArray(<<Case(1), Case(2)>>) -> CasesText
      [] v = JSArray(<<Case(1)>>) -> LateCasesText
      [] OTHER -> "undefined"

\* The step decrypts, with the password and the parameters it was produced
\* with, an intact envelope of a UTF-8 plaintext.
RoundTripStep(i) ==
    /\ DecryptStep(i)
    /\ calls'[i].encrypted.kind = "object"
    /\ calls'[i].encrypted.fields = EnvelopeFields
    /\ calls'[i].encrypted.ciphertext.intact
    /\ calls'[i].encrypted.ciphertext.plain.valid
    /\ calls[i].password = EnvelopePassword(calls'[i].encrypted)
    /\ calls[i].config = ReferenceConfig

Plaintext(i) == calls'[i].encrypted.ciphertext.plain.text

FailedAttemptLeavesNothing ==
    (/\ Started # {}
     /\ \A i \in Started : calls[i].outcome \in {"incorrect", "error"}
     /\ passwordError \in {MsgIncorrect, MsgError}
     /\ appHidden)
    => (casesData = JSArray(<<>>) /\ storedPassword = NoPassword)

\* Every invocation that was started has run to its end.
Quiescent == Started # {} /\ \A i \in Started : calls[i].pc = "done"

\* C17: once the attempts have run to their end, each selector holds one
\* option per element of its dataset, in order, and at most one change
\* listener (exactly one on the case selector of an unlocked app).
SelectorsMatchDatasets ==
    Quiescent
    => /\ caseSelector.options = Indices(casesData)
       /\ lateSelector.options = Indices(lateAwakeningCases)
       /\ caseSelector.listeners <= 1
       /\ lateSelector.listeners <= 1
       /\ ~appHidden => caseSelector.listeners = 1

\* C18: currentCaseIndex is -1 or an index of casesData.
CurrentCaseIndexInRange ==
    currentCaseIndex = NoSelection \/ InRange(casesData, currentCaseIndex)

\* C19: currentCaseSource names the dataset of the case the case-detail
\* panel shows.
CurrentCaseSourceNamesPanel ==
    caseDetail.source # "none" => currentCaseSource = caseDetail.source

\* The step renders casesData at the index it moves currentCaseIndex to.
StepsTo(index) ==
    /\ currentCaseIndex' = index
    /\ InRange(casesData, index)
    /\ caseDetail'.source = "main"
    /\ caseDetail'.index = index

\* C20: prevCase changes nothing when currentCaseIndex <= 0, nextCase
\* nothing when currentCaseIndex >= casesData.length - 1; otherwise each
\* moves currentCaseIndex by one and renders casesData at the new index.
PrevNextStayInMain ==
    [][/\ prevCase
          => IF currentCaseIndex <= 0 THEN UNCHANGED vars
             ELSE StepsTo(currentCaseIndex - 1)
       /\ nextCase
          => IF currentCaseIndex >= Length(casesData) - 1 THEN UNCHANGED vars
             ELSE StepsTo(currentCaseIndex + 1)]_vars

\* The record the overview row's 'View' button asks for.
Viewed(row) == casesData.items[overviewRows[row].rank]

\* C21: viewing a record that has neither an exploration trace nor a prince
\* post fills the case-detail panel with that record and draws its
\* timeline.
RendersWithoutExploration ==
    [][\A row \in DOMAIN overviewRows :
          (/\ ViewClick(row)
           /\ InRange(casesData, overviewRows[row].rank - 1)
           /\ ~Viewed(row).exploration.present
           /\ ~Viewed(row).prince_post.present)
          => (/\ caseDetail'.source = "main"
              /\ caseDetail'.index = overviewRows[row].rank - 1
              /\ caseDetail'.timeline)]_vars

\* The record the case-detail panel shows.
Shown == casesData.items[caseDetail.index + 1]

\* The chain the claim gives each label.
ChainOfLabel(mechanism) ==
    CASE mechanism \in
            { Label(Combined(ExternalEvent, ContextualDiscovery)),
              Label(Combined(ContextualDiscovery, ExternalEvent)),
              Label(Combined(Combined(ExternalEvent, ContextualDiscovery),
                             AuthorSelfPromotion)) }
            -> Chain("external-event", 5)
      [] mechanism \in
            { Label(AuthorSeriesContinuation),
              Label(Combined(AuthorSeriesContinuation, NewUserDiscovery)) }
            -> Chain("series", 4)
      [] mechanism \in
            { Label(AuthorSelfPromotion),
              Label(PossibleVariant(AuthorSelfPromotion)),
              Label(Combined(PossibleVariant(AuthorSeriesContinuation),
                             AuthorSelfPromotion)) }
            -> Chain("self-promotion", 5)
      [] mechanism = Label(NewUserDiscovery) -> Chain("discovery", 4)
      [] OTHER -> NoChain

\* C22: the chain in the panel is the one the label of the record shown
\* selects, by first match: external event with contextual discovery (5
\* steps), series continuation that is not 'Possible' (4), self-promotion
\* (5), exactly 'New User Discovery' (4), and none for every other label.
MechanismChainByLabel ==
    caseDetail.source = "main"
    => caseDetail.html.chain = ChainOfLabel(Shown.mechanism)

MechanismChainByLabelWitness ==
    /\ caseDetail.source = "main"
    /\ Shown.mechanism = Label(PossibleVariant(NewUserDiscovery))
    /\ caseDetail.html.chain = NoChain
    /\ activeTab = "cases"

\* C23: the panel holds the 'Author's Comment on This Thread' block only
\* for a record whose mechanism label includes 'Author Self-Promotion'.
EvidenceOnlyForSelfPromotion ==
    (caseDetail.source = "main" /\ caseDetail.html.evidence)
    => (/\ Shown.mechanism.present
        /\ Includes(Shown.mechanism.words, AuthorSelfPromotion))

\* The step is one of the loadLateAwakeningData of invocation i.
LateStep(i) ==
    /\ calls[i].pc \in {"fetchLateSummary", "fetchLateConfig",
                        "fetchLateCases"}
    /\ StepOf(i)

TableAgreesWithView ==
    /\ [](\A k \in DOMAIN lateTable :
             lateTable[k] = "View" <=> k - 1 < Length(lateAwakeningCases))
    /\ [][\A row \in DOMAIN lateTable :
             LateViewClick(row)
             => /\ row - 1 < Length(lateAwakeningCases)
                /\ currentCaseSource' = "late"
                /\ currentCaseIndex' = row - 1
                /\ caseDetail'.source = "late"
                /\ caseDetail'.index = row - 1
                /\ activeTab' = "cases"]_vars

TableAgreesWithViewWitness ==
    /\ lateTable = <<"View", "Pending">>
    /\ lateAwakeningCases = JSArray(<<Case(1)>>)
    /\ caseDetail.source = "late"
    /\ currentCaseSource = "late"
    /\ currentCaseIndex = 0

====
